---------------------------- MODULE Spec2Model ----------------------------
(***************************************************************************)
(* A model of neoman's input state machine: App::handle_key_events         *)
(* (src/src/app.rs) driven by the main loop of src/src/main.rs.            *)
(*                                                                         *)
(* The application state is the record `app` (the fields of struct App     *)
(* and of the components it owns), `key` is the key event the loop handed  *)
(* to the handler last, and `pc` is the position of the process: in the    *)
(* main loop ("loop"), suspended in the handler on a request in flight     *)
(* ("inflight"), past the loop ("exited"), or aborted by a panic           *)
(* ("panicked").                                                           *)
(*                                                                         *)
(* A Rust String is modelled as the sequence of its chars; byte offsets    *)
(* (which is what urlbar.cursor_position and String::len count) are        *)
(* computed from the UTF-8 width of each char.                             *)
(***************************************************************************)
EXTENDS Integers, Sequences, FiniteSets, TLC

VARIABLES app, key, pc

vars == <<app, key, pc>>

(***************************************************************************)
(* Bounds of the model.                                                    *)
(***************************************************************************)
\* The URL buffer grows by at most this many bytes over the default URL.
MaxGrow == 1
\* Longest URL buffer (in bytes) of the runs that start from an emptied field.
MaxTextLen == 3
\* Most tabs open in the runs that move within the tabs.
MaxTabs == 4

(***************************************************************************)
(* Key events: KeyCode and KeyModifiers of crossterm, as the handler       *)
(* reads them.  ch is the char of KeyCode::Char and "" otherwise.          *)
(***************************************************************************)
Key(code, ch, ctrl) == [code |-> code, ch |-> ch, ctrl |-> ctrl]

Char(c) == Key("Char", c, FALSE)

Ctrl(c) == Key("Char", c, TRUE)

Named(code) == Key(code, "", FALSE)

NoKey == Key("None", "", FALSE)

IsChar(k, c) == k.code = "Char" /\ k.ch = c

\* U+00E9, whose UTF-8 encoding is the two bytes C3 A9.
EAcute == "U+00E9"

WideChars == {EAcute}

\* char::len_utf8
len_utf8(c) == IF c \in WideChars THEN 2 ELSE 1

(***************************************************************************)
(* Strings.                                                                *)
(***************************************************************************)
RECURSIVE ByteLen(_)
\* String::len: the length in bytes.
ByteLen(s) == IF s = <<>> THEN 0 ELSE len_utf8(Head(s)) + ByteLen(Tail(s))

\* The number of chars of s that start before byte offset idx.
RECURSIVE CharsBefore(_, _)
CharsBefore(s, idx) ==
    IF s = <<>> \/ idx <= 0 THEN 0
    ELSE 1 + CharsBefore(Tail(s), idx - len_utf8(Head(s)))

\* str::is_char_boundary
is_char_boundary(s, idx) ==
    /\ idx >= 0
    /\ idx <= ByteLen(s)
    /\ ByteLen(SubSeq(s, 1, CharsBefore(s, idx))) = idx

\* String::insert(idx, c) panics unless idx is a char boundary.
InsertPanics(s, idx) == ~is_char_boundary(s, idx)

StringInsert(s, idx, c) ==
    LET n == CharsBefore(s, idx)
    IN  SubSeq(s, 1, n) \o <<c>> \o SubSeq(s, n + 1, Len(s))

\* String::remove(idx) panics when idx is at or past the end, or inside a char.
RemovePanics(s, idx) == ~is_char_boundary(s, idx) \/ idx >= ByteLen(s)

StringRemove(s, idx) ==
    LET n == CharsBefore(s, idx)
    IN  SubSeq(s, 1, n) \o SubSeq(s, n + 2, Len(s))

(***************************************************************************)
(* Focus regions.                                                          *)
(***************************************************************************)
Selected == <<"Sidebar", "Tabs", "MethodBar", "Urlbar",
              "RequestTab", "Requestbar", "Responsebar">>

Regions == {Selected[i] : i \in 1..Len(Selected)}

Methods == <<"GET", "POST", "PUT", "DELETE", "PATCH", "HEAD", "OPTIONS">>

DefaultUrl ==
    <<"h", "t", "t", "p", "s", ":", "/", "/", "a", "p", "i", ".", "k", "a",
      "n", "y", "e", ".", "r", "e", "s", "t", "/", "?", "q", "=", "a">>

(***************************************************************************)
(* The item forest built by App::default:                                  *)
(*   a, b [ c, d [ e, f ], g ], d                                          *)
(* A node is named by its path of 1-based child positions.                 *)
(***************************************************************************)
Roots == << <<1>>, <<2>>, <<3>> >>

Children(p) ==
    CASE p = <<2>>    -> << <<2, 1>>, <<2, 2>>, <<2, 3>> >>
      [] p = <<2, 2>> -> << <<2, 2, 1>>, <<2, 2, 2>> >>
      [] OTHER        -> << >>

ItemName(p) ==
    CASE p = <<1>>       -> "a"
      [] p = <<2>>       -> "b"
      [] p = <<2, 1>>    -> "c"
      [] p = <<2, 2>>    -> "d"
      [] p = <<2, 2, 1>> -> "e"
      [] p = <<2, 2, 2>> -> "f"
      [] p = <<2, 3>>    -> "g"
      [] p = <<3>>       -> "d"

Nodes == {<<1>>, <<2>>, <<2, 1>>, <<2, 2>>, <<2, 2, 1>>, <<2, 2, 2>>,
          <<2, 3>>, <<3>>}

NoNode == << >>


(***************************************************************************)
(* NavigableTree (items::StatefulTree): the visible view is the            *)
(* depth-first, parent-before-children flattening restricted to expanded   *)
(* ancestors; tree_cursor is a 0-based index into it.                      *)
(***************************************************************************)
RECURSIVE VisibleOf(_, _)
VisibleOf(ps, opened) ==
    IF ps = << >> THEN << >>
    ELSE LET p == Head(ps)
         IN  <<p>>
             \o (IF p \in opened THEN VisibleOf(Children(p), opened) ELSE << >>)
             \o VisibleOf(Tail(ps), opened)

Visible(a) == VisibleOf(Roots, a.tree_opened)

\* The 1-based position of the first element of seq that equals x, or 0.
IndexOf(seq, x) ==
    IF \E i \in 1..Len(seq) : seq[i] = x
    THEN CHOOSE i \in 1..Len(seq) :
            seq[i] = x /\ \A j \in 1..(i - 1) : seq[j] # x
    ELSE 0

\* SideBar::selected / StatefulTree::selected: the current node, or none.
sidebar_selected(a) ==
    IF a.tree_cursor >= 0 /\ a.tree_cursor < Len(Visible(a))
    THEN Visible(a)[a.tree_cursor + 1]
    ELSE NoNode

tree_first(a) ==
    IF Visible(a) = << >> THEN a ELSE [a EXCEPT !.tree_cursor = 0]

tree_last(a) ==
    IF Visible(a) = << >> THEN a
    ELSE [a EXCEPT !.tree_cursor = Len(Visible(a)) - 1]

tree_down(a) ==
    IF sidebar_selected(a) # NoNode /\ a.tree_cursor + 1 < Len(Visible(a))
    THEN [a EXCEPT !.tree_cursor = @ + 1]
    ELSE a

tree_up(a) ==
    IF sidebar_selected(a) # NoNode /\ a.tree_cursor > 0
    THEN [a EXCEPT !.tree_cursor = @ - 1]
    ELSE a

tree_left(a) ==
    LET p == sidebar_selected(a)
    IN  IF p = NoNode THEN a
        ELSE IF p \in a.tree_opened
        THEN [a EXCEPT !.tree_opened = @ \ {p}]
        ELSE IF Len(p) > 1
        THEN [a EXCEPT !.tree_cursor =
                 IndexOf(Visible(a), SubSeq(p, 1, Len(p) - 1)) - 1]
        ELSE a

tree_right(a) ==
    LET p == sidebar_selected(a)
    IN  IF p = NoNode \/ Children(p) = << >> THEN a
        ELSE IF p \notin a.tree_opened
        THEN [a EXCEPT !.tree_opened = @ \cup {p}]
        ELSE [a EXCEPT !.tree_cursor = @ + 1]

tree_toggle(a) ==
    LET p == sidebar_selected(a)
    IN  IF p = NoNode \/ Children(p) = << >> THEN a
        ELSE IF p \in a.tree_opened
        THEN [a EXCEPT !.tree_opened = @ \ {p}]
        ELSE [a EXCEPT !.tree_opened = @ \cup {p}]

(***************************************************************************)
(* TabCollection (component::tabbar::TabBar): the display names of the     *)
(* open tabs and the 0-based selected index.                               *)
(***************************************************************************)
tabs_add(a, name) ==
    IF IndexOf(a.tabs, name) # 0
    THEN [a EXCEPT !.tabs_selected = IndexOf(a.tabs, name) - 1]
    ELSE [a EXCEPT !.tabs = Append(@, name), !.tabs_selected = Len(a.tabs)]

tabs_left(a) ==
    IF a.tabs # << >> /\ a.tabs_selected > 0
    THEN [a EXCEPT !.tabs_selected = @ - 1]
    ELSE a

tabs_right(a) ==
    IF a.tabs # << >> /\ a.tabs_selected + 1 < Len(a.tabs)
    THEN [a EXCEPT !.tabs_selected = @ + 1]
    ELSE a

tabs_first(a) ==
    IF a.tabs = << >> THEN a ELSE [a EXCEPT !.tabs_selected = 0]

tabs_last(a) ==
    IF a.tabs = << >> THEN a ELSE [a EXCEPT !.tabs_selected = Len(a.tabs) - 1]

(***************************************************************************)
(* SelectMenu (urlbar.method_menu): one group, labelled with the active    *)
(* method, holding one option per method; a highlighted option, an open    *)
(* flag and the queue of pending Selected events.                          *)
(***************************************************************************)
menu_prev(a) ==
    [a EXCEPT !.menu_highlight = (@ + Len(Methods) - 1) % Len(Methods)]

menu_next(a) ==
    [a EXCEPT !.menu_highlight = (@ + 1) % Len(Methods)]

menu_left(a) == menu_prev(a)

menu_right(a) == menu_next(a)

menu_up(a) == menu_prev(a)

menu_down(a) == menu_next(a)

menu_reset(a) == [a EXCEPT !.menu_open = FALSE]

menu_select(a) ==
    [a EXCEPT !.menu_events = Append(@, Methods[a.menu_highlight + 1]),
              !.menu_open = FALSE]

\* The loop over method_menu.drain_events() in the MethodBar arm.
RECURSIVE ApplyEvents(_, _)
ApplyEvents(a, events) ==
    IF events = << >> THEN a
    ELSE ApplyEvents([a EXCEPT !.menu_label = Head(events),
                               !.menu_open = FALSE,
                               !.method = Head(events)],
                     Tail(events))

\* The loop without set_child_name: the events are applied and the label of
\* the group stays as it was.
drain_events_keeps_label(a) ==
    [ApplyEvents([a EXCEPT !.menu_events = << >>], a.menu_events)
        EXCEPT !.menu_label = a.menu_label]

drain_events(a) == ApplyEvents([a EXCEPT !.menu_events = << >>], a.menu_events)


(***************************************************************************)
(* Url::parse, as far as App::request depends on it: whether the text      *)
(* parses as an absolute URL, and whether its scheme is one the HTTP       *)
(* client accepts.  The result is the set of the outcomes the parser may   *)
(* give: one outcome where its rule is modelled, both where it is not      *)
(* (user info, IP literals, hosts that need IDNA processing).              *)
(***************************************************************************)
Letters ==
    {"a", "b", "c", "d", "e", "f", "g", "h", "i", "j", "k", "l", "m",
     "n", "o", "p", "q", "r", "s", "t", "u", "v", "w", "x", "y", "z"}

Digits == {"0", "1", "2", "3", "4", "5", "6", "7", "8", "9"}

SchemeChars == Letters \cup Digits \cup {"+", "-", "."}

AuthorityStops == {"/", "?", "#"}

ForbiddenHost ==
    {" ", "#", "%", "/", ":", "<", ">", "?", "@", "[", "]", "^", "|"}

HttpSchemes == {<<"h", "t", "t", "p">>, <<"h", "t", "t", "p", "s">>}

SpecialSchemes ==
    HttpSchemes \cup {<<"w", "s">>, <<"w", "s", "s">>, <<"f", "t", "p">>}

HttpsPrefix == <<"h", "t", "t", "p", "s", ":", "/", "/">>

\* The 1-based position of the first element of s that is in set, or Len(s) + 1.
FirstIn(s, set) ==
    IF \E i \in 1..Len(s) : s[i] \in set
    THEN CHOOSE i \in 1..Len(s) :
            s[i] \in set /\ \A j \in 1..(i - 1) : s[j] \notin set
    ELSE Len(s) + 1

RECURSIVE TrimStart(_)
TrimStart(s) ==
    IF s # << >> /\ Head(s) = " " THEN TrimStart(Tail(s)) ELSE s

RECURSIVE TrimEnd(_)
TrimEnd(s) ==
    IF s # << >> /\ s[Len(s)] = " " THEN TrimEnd(SubSeq(s, 1, Len(s) - 1)) ELSE s

RECURSIVE SkipSlashes(_)
SkipSlashes(s) ==
    IF s # << >> /\ Head(s) = "/" THEN SkipSlashes(Tail(s)) ELSE s

PlainDomain(host) ==
    /\ host # << >>
    /\ \A i \in 1..Len(host) : host[i] \in Letters \cup {"."}
    /\ host[1] # "."
    /\ host[Len(host)] # "."
    /\ \A i \in 1..(Len(host) - 1) : ~(host[i] = "." /\ host[i + 1] = ".")

\* The outcomes of parsing an authority: "ok" or "err".
AuthorityResults(auth, special) ==
    LET c    == IndexOf(auth, ":")
        host == IF c = 0 THEN auth ELSE SubSeq(auth, 1, c - 1)
        port == IF c = 0 THEN << >> ELSE SubSeq(auth, c + 1, Len(auth))
    IN  IF (\E i \in 1..Len(auth) : auth[i] = "@")
           \/ (auth # << >> /\ auth[1] = "[")
        THEN {"ok", "err"}
        ELSE IF \E i \in 1..Len(port) : port[i] \notin Digits THEN {"err"}
        ELSE IF host = << >>
        THEN (IF special THEN {"err"}
              ELSE IF port = << >> THEN {"ok"} ELSE {"ok", "err"})
        ELSE IF \E i \in 1..Len(host) : host[i] \in ForbiddenHost THEN {"err"}
        ELSE IF PlainDomain(host) THEN {"ok"}
        ELSE {"ok", "err"}

\* The outcomes of Url::parse(s): "http" (an http or https URL), "other" (a
\* URL of another scheme) or "err".
UrlParse(s) ==
    LET t == TrimEnd(TrimStart(s))
        c == IndexOf(t, ":")
        hasScheme == /\ c > 1
                     /\ t[1] \in Letters
                     /\ \A j \in 2..(c - 1) : t[j] \in SchemeChars
        scheme == SubSeq(t, 1, c - 1)
        rest == SubSeq(t, c + 1, Len(t))
        after == SkipSlashes(rest)
        auth == SubSeq(after, 1, FirstIn(after, AuthorityStops) - 1)
        auth2 == LET r == SubSeq(rest, 3, Len(rest))
                 IN  SubSeq(r, 1, FirstIn(r, AuthorityStops) - 1)
    IN  IF ~hasScheme THEN {"err"}
        ELSE IF scheme \in SpecialSchemes
        THEN {IF x = "err" THEN "err"
              ELSE IF scheme \in HttpSchemes THEN "http" ELSE "other" :
                 x \in AuthorityResults(auth, TRUE)}
        ELSE IF Len(rest) >= 2 /\ rest[1] = "/" /\ rest[2] = "/"
        THEN {IF x = "err" THEN "err" ELSE "other" :
                 x \in AuthorityResults(auth2, FALSE)}
        ELSE {"other"}

(***************************************************************************)
(* Outcomes of a handler: the state it leaves, whether it panicked (an     *)
(* unwrap of an Err, or a String operation off a char boundary), and the   *)
(* HTTP calls it handed to the client.  An outcome that has sent a call    *)
(* and has not panicked is suspended at client.execute(req).await.         *)
(***************************************************************************)
Ok(a) == [app |-> a, panic |-> FALSE, sent |-> << >>]

Panic(a) == [app |-> a, panic |-> TRUE, sent |-> << >>]

Await(a, call) == [app |-> a, panic |-> FALSE, sent |-> <<call>>]

\* What a response body can be: empty or not.
Bodies == {"", "quote"}

\* The results of res.text(): the decoded body, or a decoding error.
TextResults ==
    {[ok |-> TRUE, text |-> b] : b \in Bodies} \cup {[ok |-> FALSE, text |-> ""]}

\* Result::unwrap_or_default on the result of res.text().
unwrap_or_default(t) == IF t.ok THEN t.text ELSE ""

\* The URL that App::request builds from the buffer: the buffer if it parses,
\* else the buffer behind "https://", each with the outcome of its parse.
BuiltUrls(text) ==
    LET first == UrlParse(text)
    IN  {[url |-> text, kind |-> b] : b \in first \ {"err"}}
        \cup (IF "err" \in first
              THEN {[url |-> HttpsPrefix \o text, kind |-> b] :
                      b \in UrlParse(HttpsPrefix \o text)}
              ELSE {})

\* App::request up to client.execute(req).await: the URL is parsed, on
\* failure parsed again behind "https://" and unwrapped; the request takes
\* the method, the URL and the request body and is handed to the client,
\* which refuses a URL that is not http or https, and the result is
\* unwrapped.
request(a) ==
    UNION {CASE u.kind = "err"   -> {Panic(a)}
             [] u.kind = "other" -> {Panic(a)}
             [] u.kind = "http"  ->
                  {Await(a, [method |-> a.method, url |-> u.url,
                             body |-> a.request_body])} :
           u \in BuiltUrls(a.text)}

\* Storing the response with a body that cannot be decoded leaving the
\* response buffer as it was.
store_response_if_decoded(a, t) ==
    IF t.ok THEN [a EXCEPT !.response_body = t.text] ELSE a

\* The end of App::request once the response is there: the response buffer
\* takes the body, or the empty string if it cannot be decoded.
store_response(a, t) == [a EXCEPT !.response_body = unwrap_or_default(t)]

(***************************************************************************)
(* App::quit, App::toggle_sidebar and the global arms of the handler.      *)
(***************************************************************************)
\* quit as the commented-out arm of the handler would have it: not while a
\* widget is being edited.
quit_unless_editing(a) ==
    IF a.input_mode = "Insert" \/ a.menu_open THEN a
    ELSE [a EXCEPT !.running = FALSE]

quit(a) == [a EXCEPT !.running = FALSE]

\* toggle_sidebar without its guard on the focused region.
toggle_sidebar_keeps_focus(a) == [a EXCEPT !.show_sidebar = ~a.show_sidebar]

toggle_sidebar(a) ==
    LET b == IF a.selected = "Sidebar" THEN [a EXCEPT !.selected = "Tabs"] ELSE a
    IN  [b EXCEPT !.show_sidebar = ~b.show_sidebar]

\* advance with the wrap leaving out a region.
advance_skips_sidebar(region) ==
    CASE region = "Sidebar"     -> "Tabs"
      [] region = "Tabs"        -> "MethodBar"
      [] region = "MethodBar"   -> "Urlbar"
      [] region = "Urlbar"      -> "RequestTab"
      [] region = "RequestTab"  -> "Requestbar"
      [] region = "Requestbar"  -> "Responsebar"
      [] region = "Responsebar" -> "Tabs"

advance(region) ==
    CASE region = "Sidebar"     -> "Tabs"
      [] region = "Tabs"        -> "MethodBar"
      [] region = "MethodBar"   -> "Urlbar"
      [] region = "Urlbar"      -> "RequestTab"
      [] region = "RequestTab"  -> "Requestbar"
      [] region = "Requestbar"  -> "Responsebar"
      [] region = "Responsebar" -> "Sidebar"

retreat(region) ==
    CASE region = "Sidebar"     -> "Responsebar"
      [] region = "Tabs"        -> "Sidebar"
      [] region = "MethodBar"   -> "Tabs"
      [] region = "Urlbar"      -> "MethodBar"
      [] region = "RequestTab"  -> "Urlbar"
      [] region = "Requestbar"  -> "RequestTab"
      [] region = "Responsebar" -> "Requestbar"

\* The first match of handle_key_events: the global key handlers.
global_keys(a, k) ==
    CASE IsChar(k, "c") \/ IsChar(k, "C") -> IF k.ctrl THEN quit(a) ELSE a
      [] IsChar(k, "b") \/ IsChar(k, "B") ->
            IF k.ctrl THEN toggle_sidebar(a) ELSE a
      [] k.code = "Esc" \/ IsChar(k, "q") -> a
      [] k.code = "Tab" \/ IsChar(k, ".") \/ IsChar(k, "]") ->
            [a EXCEPT !.selected = advance(a.selected)]
      [] IsChar(k, ",") \/ IsChar(k, "[") ->
            [a EXCEPT !.selected = retreat(a.selected)]
      [] OTHER -> a


(***************************************************************************)
(* The second match of handle_key_events: the handler of the focused       *)
(* region.  Each yields the set of its possible outcomes.                  *)
(***************************************************************************)
\* The leaf arm of the Sidebar handler: select the tab of that name if there
\* is one, else add a tab and select the last one; the focus goes to Tabs.
\* The leaf arm without the search for a tab of that name.
open_leaf_without_find(a, name) ==
    LET b == tabs_add(a, name)
    IN  [b EXCEPT !.tabs_selected = Len(b.tabs) - 1, !.selected = "Tabs"]

open_leaf(a, name) ==
    LET i == IndexOf(a.tabs, name)
    IN  IF i # 0
        THEN [a EXCEPT !.tabs_selected = i - 1, !.selected = "Tabs"]
        ELSE LET b == tabs_add(a, name)
             IN  [b EXCEPT !.tabs_selected = Len(b.tabs) - 1,
                           !.selected = "Tabs"]

\* The Sidebar handler with the toggle of a node taking the focus to Tabs as
\* the opening of a leaf does.
sidebar_keys_toggle_moves_focus(a, k) ==
    LET item == sidebar_selected(a)
    IN  CASE IsChar(k, " ") \/ IsChar(k, "o") \/ k.code = "Enter" ->
                IF item = NoNode THEN a
                ELSE IF Children(item) = << >>
                THEN open_leaf(a, ItemName(item))
                ELSE [tree_toggle(a) EXCEPT !.selected = "Tabs"]
          [] k.code = "Left"  -> tree_left(a)
          [] k.code = "Right" -> tree_right(a)
          [] k.code = "Down"  -> tree_down(a)
          [] k.code = "Up"    -> tree_up(a)
          [] k.code = "Home"  -> tree_first(a)
          [] k.code = "End"   -> tree_last(a)
          [] OTHER -> a

sidebar_keys(a, k) ==
    LET item == sidebar_selected(a)
    IN  CASE IsChar(k, " ") \/ IsChar(k, "o") \/ k.code = "Enter" ->
                IF item = NoNode THEN a
                ELSE IF Children(item) = << >>
                THEN open_leaf(a, ItemName(item))
                ELSE tree_toggle(a)
          [] k.code = "Left"  -> tree_left(a)
          [] k.code = "Right" -> tree_right(a)
          [] k.code = "Down"  -> tree_down(a)
          [] k.code = "Up"    -> tree_up(a)
          [] k.code = "Home"  -> tree_first(a)
          [] k.code = "End"   -> tree_last(a)
          [] OTHER -> a

\* The Tabs handler with Down moving on without TabBar::right's check.
tabs_keys_down_unchecked(a, k) ==
    CASE k.code = "Left"  -> tabs_left(a)
      [] k.code = "Right" -> tabs_right(a)
      [] k.code = "Down"  -> [a EXCEPT !.tabs_selected = @ + 1]
      [] k.code = "Up"    -> tabs_left(a)
      [] k.code = "Home"  -> tabs_first(a)
      [] k.code = "End"   -> tabs_last(a)
      [] OTHER -> a

tabs_keys(a, k) ==
    CASE k.code = "Left"  -> tabs_left(a)
      [] k.code = "Right" -> tabs_right(a)
      [] k.code = "Down"  -> tabs_right(a)
      [] k.code = "Up"    -> tabs_left(a)
      [] k.code = "Home"  -> tabs_first(a)
      [] k.code = "End"   -> tabs_last(a)
      [] OTHER -> a

\* The MethodBar handler without the loop over drain_events().
methodbar_keys_undrained(a, k) ==
    CASE IsChar(k, "h") \/ k.code = "Left"  -> menu_left(a)
      [] IsChar(k, "l") \/ k.code = "Right" -> menu_right(a)
      [] IsChar(k, "j") \/ k.code = "Down"  -> menu_down(a)
      [] IsChar(k, "k") \/ k.code = "Up"    -> menu_up(a)
      [] k.code = "Esc"   -> menu_reset(a)
      [] k.code = "Enter" -> menu_select(a)
      [] OTHER -> a

methodbar_keys(a, k) ==
    drain_events(
        CASE IsChar(k, "h") \/ k.code = "Left"  -> menu_left(a)
          [] IsChar(k, "l") \/ k.code = "Right" -> menu_right(a)
          [] IsChar(k, "j") \/ k.code = "Down"  -> menu_down(a)
          [] IsChar(k, "k") \/ k.code = "Up"    -> menu_up(a)
          [] k.code = "Esc"   -> menu_reset(a)
          [] k.code = "Enter" -> menu_select(a)
          [] OTHER -> a)

\* The Normal-mode arm with Enter firing the request as well.
urlbar_normal_keys_enter_fires(a, k) ==
    CASE k.code = "Enter" \/ IsChar(k, "o") -> request(a)
      [] IsChar(k, "i") -> {Ok([a EXCEPT !.input_mode = "Insert"])}
      [] OTHER -> {Ok(a)}

urlbar_normal_keys(a, k) ==
    CASE k.code = "Enter" \/ IsChar(k, "i") ->
            {Ok([a EXCEPT !.input_mode = "Insert"])}
      [] IsChar(k, "o") -> request(a)
      [] OTHER -> {Ok(a)}

\* KeyCode::Char(c) in Insert mode: text.insert(cursor_position, c), and the
\* cursor moves on by one.
urlbar_insert_char(a, c) ==
    IF InsertPanics(a.text, a.cursor_position) THEN {Panic(a)}
    ELSE {Ok([a EXCEPT !.text = StringInsert(@, a.cursor_position, c),
                       !.cursor_position = @ + 1])}

urlbar_backspace(a) ==
    IF a.cursor_position > 0
    THEN LET b == [a EXCEPT !.cursor_position = @ - 1]
         IN  IF RemovePanics(b.text, b.cursor_position) THEN {Panic(b)}
             ELSE {Ok([b EXCEPT !.text = StringRemove(@, b.cursor_position)])}
    ELSE {Ok(a)}

urlbar_delete(a) ==
    IF a.cursor_position < ByteLen(a.text)
    THEN IF RemovePanics(a.text, a.cursor_position) THEN {Panic(a)}
         ELSE {Ok([a EXCEPT !.text = StringRemove(@, a.cursor_position)])}
    ELSE {Ok(a)}

urlbar_left(a) ==
    IF a.cursor_position > 0
    THEN {Ok([a EXCEPT !.cursor_position = @ - 1])}
    ELSE {Ok(a)}

\* Right without the check against the length of the text.
urlbar_right_unchecked(a) == {Ok([a EXCEPT !.cursor_position = @ + 1])}

urlbar_right(a) ==
    IF a.cursor_position < ByteLen(a.text)
    THEN {Ok([a EXCEPT !.cursor_position = @ + 1])}
    ELSE {Ok(a)}

urlbar_insert_keys(a, k) ==
    CASE k.code = "Enter"     -> {Ok([a EXCEPT !.input_mode = "Normal"])}
      [] k.code = "Char"      -> urlbar_insert_char(a, k.ch)
      [] k.code = "Backspace" -> urlbar_backspace(a)
      [] k.code = "Delete"    -> urlbar_delete(a)
      [] k.code = "Left"      -> urlbar_left(a)
      [] k.code = "Right"     -> urlbar_right(a)
      [] k.code = "Home"      -> {Ok([a EXCEPT !.cursor_position = 0])}
      [] k.code = "End"       ->
            {Ok([a EXCEPT !.cursor_position = ByteLen(a.text)])}
      [] OTHER -> {Ok(a)}

\* The URL field with the input mode gating only its own commands.
urlbar_keys_ungated(a, k) ==
    IF a.input_mode = "Normal"
       /\ (k.code = "Enter" \/ IsChar(k, "i") \/ IsChar(k, "o"))
    THEN urlbar_normal_keys(a, k)
    ELSE urlbar_insert_keys(a, k)

urlbar_keys(a, k) ==
    IF a.input_mode = "Normal"
    THEN urlbar_normal_keys(a, k)
    ELSE urlbar_insert_keys(a, k)

\* The RequestTab arm only moves requestbar.request_menu, which nothing else
\* reads and which is not part of the state here; the Requestbar and
\* Responsebar arms are empty.
region_keys(a, k) ==
    CASE a.selected = "Sidebar"     -> {Ok(sidebar_keys(a, k))}
      [] a.selected = "Tabs"        -> {Ok(tabs_keys(a, k))}
      [] a.selected = "MethodBar"   -> {Ok(methodbar_keys(a, k))}
      [] a.selected = "Urlbar"      -> urlbar_keys(a, k)
      [] a.selected = "RequestTab"  -> {Ok(a)}
      [] a.selected = "Requestbar"  -> {Ok(a)}
      [] a.selected = "Responsebar" -> {Ok(a)}

\* App::handle_key_events: the global handlers, then the handler of the
\* region that is focused once they have run.
handle_key_events(a, k) == region_keys(global_keys(a, k), k)

(***************************************************************************)
(* The state after App::new().                                             *)
(***************************************************************************)
DefaultApp ==
    [running         |-> TRUE,
     selected        |-> "Urlbar",
     show_sidebar    |-> TRUE,
     tree_cursor     |-> 0,
     tree_opened     |-> {},
     tabs            |-> [i \in 1..Len(Roots) |-> ItemName(Roots[i])],
     tabs_selected   |-> 0,
     text            |-> DefaultUrl,
     cursor_position |-> 0,
     input_mode      |-> "Normal",
     method          |-> Methods[1],
     menu_label      |-> Methods[1],
     menu_highlight  |-> 0,
     menu_open       |-> FALSE,
     menu_events     |-> << >>,
     request_body    |-> "",
     response_body   |-> ""]

Init ==
    /\ app = DefaultApp
    /\ key = NoKey
    /\ pc = "loop"

\* The URL field emptied: the state after Enter and then Delete pressed until
\* nothing is left of the default URL.
InitText ==
    /\ app = [DefaultApp EXCEPT !.text = << >>, !.input_mode = "Insert"]
    /\ key = Named("Delete")
    /\ pc = "loop"

(***************************************************************************)
(* The main loop: while app.running, take the next event and handle it.    *)
(***************************************************************************)
\* Event::Key taken and handled without the loop's test of app.running.
KeyEvent_after_quit(k, cap) ==
    /\ pc = "loop"
    /\ \E r \in handle_key_events(app, k) :
          /\ ByteLen(r.app.text) <= cap
          /\ app' = r.app
          /\ pc' = IF r.panic THEN "panicked"
                   ELSE IF r.sent # << >> THEN "inflight" ELSE "loop"
    /\ key' = k

\* Event::Key: the handler runs on a key the user can press while the URL
\* buffer stays within cap bytes.
KeyEvent(k, cap) ==
    /\ pc = "loop"
    /\ app.running
    /\ \E r \in handle_key_events(app, k) :
          /\ ByteLen(r.app.text) <= cap
          /\ app' = r.app
          /\ pc' = IF r.panic THEN "panicked"
                   ELSE IF r.sent # << >> THEN "inflight" ELSE "loop"
    /\ key' = k

\* client.execute(req).await resolves while the handler is suspended in
\* App::request: with an error, which is unwrapped, or with a response,
\* whose text is stored; the handler then returns to the loop.
Resolve ==
    /\ pc = "inflight"
    /\ \/ pc' = "panicked" /\ app' = app
       \/ \E t \in TextResults :
             app' = store_response(app, t) /\ pc' = "loop"
    /\ key' = key

\* Event::Tick, Event::Mouse and Event::Resize change nothing.
Tick ==
    /\ pc = "loop"
    /\ app.running
    /\ UNCHANGED vars

\* The loop ends once running is false.
MainExit ==
    /\ pc = "loop"
    /\ ~app.running
    /\ pc' = "exited"
    /\ UNCHANGED <<app, key>>

AdvanceKeys == {Named("Tab"), Char("."), Char("]")}

RetreatKeys == {Char(","), Char("[")}

QuitKey == Ctrl("c")

ToggleKey == Ctrl("b")

GlobalCommandKeys == AdvanceKeys \cup RetreatKeys \cup {QuitKey, ToggleKey}

\* Focus routing and dispatch, from the default state: the global commands,
\* and Enter, which switches the URL field between its two modes.
Keys == GlobalCommandKeys \cup {Named("Enter"), Char("c")}

Next ==
    \/ \E k \in Keys : KeyEvent(k, Len(DefaultUrl) + MaxGrow)
    \/ Tick
    \/ MainExit

Spec == Init /\ [][Next]_vars

\* The same with the loop going on to its test of app.running whenever the
\* handler has returned: once the flag is false nothing else can run, and
\* the loop is left.
SpecQuit == Spec /\ WF_vars(MainExit)

\* Editing of the URL field while it keeps the focus, from the emptied field.
TextKeys ==
    {Named("Enter"), Named("Backspace"), Named("Delete"), Named("Left"),
     Named("Right"), Named("Home"), Named("End"), Named("Esc"),
     Char("x"), Char(EAcute), Char("i"), Char("o"), QuitKey}

NextText ==
    \/ \E k \in TextKeys : KeyEvent(k, MaxTextLen)
    \/ Resolve
    \/ Tick
    \/ MainExit

SpecText == InitText /\ [][NextText]_vars

\* Opening leaves from the sidebar, from the default state.
TabsKeys == {Char(" "), Named("Down"), Char(","), QuitKey}

NextTabs ==
    \/ \E k \in TabsKeys : KeyEvent(k, Len(DefaultUrl) + MaxGrow)
    \/ Tick
    \/ MainExit

SpecTabs == Init /\ [][NextTabs]_vars

\* Moving within the tabs and the tree, and opening leaves, from the default
\* state, while no more than MaxTabs tabs are open.
NavKeys == {Named("Up"), Named("Down"), Char(" "), Char(","), QuitKey}

NextNav ==
    \/ \E k \in NavKeys :
          KeyEvent(k, Len(DefaultUrl) + MaxGrow) /\ Len(app'.tabs) <= MaxTabs
    \/ Tick
    \/ MainExit

SpecNav == Init /\ [][NextNav]_vars

\* Choosing a method in the menu, from the default state.
MenuKeys ==
    {Char("j"), Char("k"), Named("Enter"), Named("Esc"), Char(","), QuitKey}

NextMenu ==
    \/ \E k \in MenuKeys : KeyEvent(k, Len(DefaultUrl) + MaxGrow)
    \/ Tick
    \/ MainExit

SpecMenu == Init /\ [][NextMenu]_vars

\* Firing requests, with the method chosen in the menu, from the default
\* state.
RequestKeys ==
    {Char("o"), Char("j"), Named("Enter"), Char(","), QuitKey}

NextRequest ==
    \/ \E k \in RequestKeys : KeyEvent(k, Len(DefaultUrl) + MaxGrow)
    \/ Resolve
    \/ Tick
    \/ MainExit

SpecRequest == Init /\ [][NextRequest]_vars

(***************************************************************************)
(* Properties.                                                             *)
(***************************************************************************)
\* A step of the main loop that handles key event k.
KeyStep(k) == pc = "loop" /\ app.running /\ key' = k

\* The states the handler can leave after the keys ks, handled in order from
\* state a, none of them panicking.
RECURSIVE AfterKeys(_, _)
AfterKeys(a, ks) ==
    IF ks = << >> THEN {a}
    ELSE UNION {AfterKeys(r.app, Tail(ks)) :
                  r \in {x \in handle_key_events(a, Head(ks)) : ~x.panic}}

\* The successor and the predecessor of a region in the cycle Selected.
Succ(region) == Selected[(IndexOf(Selected, region) % Len(Selected)) + 1]

Pred(region) ==
    Selected[((IndexOf(Selected, region) + Len(Selected) - 2) % Len(Selected)) + 1]

\* The fields a global command has no business with.
RegionFields(a) ==
    <<a.text, a.cursor_position, a.input_mode, a.tabs, a.tabs_selected,
      a.tree_cursor, a.tree_opened, a.menu_label, a.menu_highlight,
      a.menu_open, a.menu_events, a.method>>

\* C1: handling an advance-focus key (Tab, '.', ']') leaves the focus on the
\* successor of the previous region in the cycle Sidebar, Tabs, MethodBar,
\* Urlbar, RequestTab, Requestbar, Responsebar, Sidebar, and handling a
\* retreat-focus key (',', '[') leaves it on the predecessor, whatever the
\* sidebar's visibility; an advance followed by a retreat restores the focus,
\* and so do seven advances.
C1_FocusCycle ==
    [][/\ \A k \in AdvanceKeys :
             KeyStep(k) => app'.selected = Succ(app.selected)
       /\ \A k \in RetreatKeys :
             KeyStep(k) => app'.selected = Pred(app.selected)
       /\ \A k \in AdvanceKeys : \A k2 \in RetreatKeys :
             \A b \in AfterKeys(app, <<k, k2>>) : b.selected = app.selected
       /\ \A k \in AdvanceKeys :
             \A b \in AfterKeys(app, [i \in 1..Len(Selected) |-> k]) :
                b.selected = app.selected]_vars

\* An advance key has wrapped the focus onto the sidebar while it is hidden.
C1_Witness ==
    /\ key \in AdvanceKeys
    /\ app.selected = "Sidebar"
    /\ ~app.show_sidebar
    /\ pc = "loop"

\* C2: a key event that matches a global command (quit, toggle-sidebar,
\* advance-focus, retreat-focus) is not forwarded to a region handler: it
\* leaves the URL buffer, its cursor, the input mode, the tabs, the tree
\* state, the method menu and the active method unchanged.
C2_GlobalKeysNotForwarded ==
    [][\A k \in GlobalCommandKeys :
          KeyStep(k) => RegionFields(app') = RegionFields(app)]_vars

\* C3: in every state in which the loop accepts key events, whatever the
\* focus region, the URL input mode and the menu's open state, handling
\* Ctrl+C sets the running flag to false.
C3_QuitUnconditional ==
    (pc = "loop" /\ app.running)
        => \A r \in handle_key_events(app, QuitKey) : ~r.app.running

\* Ctrl+C has ended the run while the URL field was in Insert mode and the
\* focus was elsewhere.
C3_Witness ==
    /\ key = QuitKey
    /\ ~app.running
    /\ app.input_mode = "Insert"
    /\ app.selected = "Sidebar"

\* C4: toggle_sidebar() flips the sidebar-visibility flag; a focus on Sidebar
\* becomes Tabs and any other focus is unchanged; no other field changes; two
\* calls in a row restore the flag.  The Ctrl+B key event, which calls it,
\* flips the flag and moves the focus the same way.
C4_ToggleSidebar ==
    [][/\ LET t == toggle_sidebar(app)
          IN  /\ t.show_sidebar = ~app.show_sidebar
              /\ t.selected =
                    (IF app.selected = "Sidebar" THEN "Tabs" ELSE app.selected)
              /\ t = [app EXCEPT !.show_sidebar = t.show_sidebar,
                                 !.selected = t.selected]
              /\ toggle_sidebar(t).show_sidebar = app.show_sidebar
       /\ KeyStep(ToggleKey) =>
             /\ app'.show_sidebar = ~app.show_sidebar
             /\ app'.selected =
                   (IF app.selected = "Sidebar" THEN "Tabs" ELSE app.selected)]_vars

\* Ctrl+B has shown the sidebar again.
C4_Witness ==
    /\ key = ToggleKey
    /\ app.show_sidebar
    /\ app.selected = "Tabs"
    /\ pc = "loop"

\* C5 as stated: whenever the sidebar is hidden, the focus is not on Sidebar.
C5_HiddenNeverFocused == ~app.show_sidebar => app.selected # "Sidebar"

\* C5 as amended: a toggle-sidebar key event never leaves the focus on
\* Sidebar, so the sidebar is not focused at the moment it is hidden.
C5_ToggleLeavesSidebar ==
    [][KeyStep(ToggleKey) => app'.selected # "Sidebar"]_vars

\* Ctrl+B has hidden the sidebar and the focus is on Tabs.
C5_Witness ==
    /\ key = ToggleKey
    /\ ~app.show_sidebar
    /\ app.selected = "Tabs"

\* The URL field has the focus and is in Insert mode, and the loop is running.
Editing ==
    /\ pc = "loop"
    /\ app.running
    /\ app.selected = "Urlbar"
    /\ app.input_mode = "Insert"

\* Handling k in state a changes neither the URL buffer nor its cursor, and
\* does not panic.
LeavesText(a, k) ==
    \A r \in handle_key_events(a, k) :
        /\ ~r.panic
        /\ r.app.text = a.text
        /\ r.app.cursor_position = a.cursor_position

\* C6: after every key event the URL field's cursor is within
\* 0 .. length of the buffer (String::len, in bytes); Left and Backspace at
\* cursor 0, and Right and Delete at cursor = length, change neither the
\* buffer nor the cursor.
C6_CursorInBounds ==
    /\ 0 <= app.cursor_position
    /\ app.cursor_position <= ByteLen(app.text)
    /\ (Editing /\ app.cursor_position = 0) =>
          /\ LeavesText(app, Named("Left"))
          /\ LeavesText(app, Named("Backspace"))
    /\ (Editing /\ app.cursor_position = ByteLen(app.text)) =>
          /\ LeavesText(app, Named("Right"))
          /\ LeavesText(app, Named("Delete"))

\* Right was pressed with the cursor at the end of a buffer that holds a
\* two-byte char, and the cursor is still at the end.
C6_Witness ==
    /\ Editing
    /\ key = Named("Right")
    /\ app.cursor_position = ByteLen(app.text)
    /\ \E i \in 1..Len(app.text) : app.text[i] = EAcute

\* C7: in Insert mode with the URL field focused, inserting a char that is
\* no global-command key and then pressing Backspace restores the buffer and
\* the cursor, for every buffer and every cursor position in 0 .. length.
C7_InsertBackspaceIdentity ==
    Editing =>
        \A c \in {"x", EAcute} :
            \A r1 \in handle_key_events(app, Char(c)) :
                /\ ~r1.panic
                /\ \A r2 \in handle_key_events(r1.app, Named("Backspace")) :
                      /\ ~r2.panic
                      /\ r2.app.text = app.text
                      /\ r2.app.cursor_position = app.cursor_position

\* C8: while the URL field is in Normal mode no key event changes the buffer
\* or the cursor; of the keys that reach the field in Normal mode only
\* Enter and 'i' (which enter Insert mode and change nothing else) and 'o'
\* (which fires the request and changes nothing but the response buffer)
\* have an effect; a change of mode leaves buffer and cursor unchanged.
C8_NormalModeGates ==
    [][LET k == key'
           command == k.code = "Enter" \/ IsChar(k, "i") \/ IsChar(k, "o")
       IN  /\ (app.input_mode = "Normal" \/ app'.input_mode # app.input_mode) =>
                 /\ app'.text = app.text
                 /\ app'.cursor_position = app.cursor_position
           /\ (/\ KeyStep(k)
               /\ global_keys(app, k).selected = "Urlbar"
               /\ app.input_mode = "Normal") =>
                 /\ ~command => (app' = global_keys(app, k) /\ pc' = pc)
                 /\ (k.code = "Enter" \/ IsChar(k, "i")) =>
                       app' = [global_keys(app, k) EXCEPT !.input_mode = "Insert"]
                 /\ IsChar(k, "o") =>
                       app' = [global_keys(app, k) EXCEPT
                                 !.response_body = app'.response_body]]_vars

\* A char was typed at the focused URL field in Normal mode, and the buffer
\* typed earlier is as it was.
C8_Witness ==
    /\ pc = "loop"
    /\ app.selected = "Urlbar"
    /\ app.input_mode = "Normal"
    /\ key = Char("x")
    /\ app.text = <<EAcute>>
    /\ app.cursor_position = 1

\* C9: no edit-mode key event on the URL field (insertion of any char,
\* Backspace, Delete, Left, Right, Home, End) fails or aborts the program.
C9_EditingTotal ==
    [][\A k \in TextKeys \ GlobalCommandKeys :
          (Editing /\ KeyStep(k)) => pc' # "panicked"]_vars

\* The number of tabs called name.
TabCount(tabs, name) == Cardinality({i \in 1..Len(tabs) : tabs[i] = name})

NoDuplicateTabs(tabs) ==
    \A i, j \in 1..Len(tabs) : tabs[i] = tabs[j] => i = j

\* C10: no two tabs have the same display name; opening a leaf from the
\* sidebar leaves exactly one tab of its name, selected; if a tab of that
\* name existed it is the one of lowest index and no tab is added, else the
\* tab is appended; a tab is appended only when none of that name exists;
\* and opening the same leaf a second time (back on the sidebar) again
\* leaves exactly one tab of its name, selected.
C10_TabsDedup ==
    [][LET item == sidebar_selected(app)
           name == ItemName(item)
           i    == IndexOf(app.tabs, name)
       IN  /\ NoDuplicateTabs(app.tabs)
           /\ NoDuplicateTabs(app'.tabs)
           /\ app'.tabs # app.tabs =>
                 \E n \in {ItemName(p) : p \in Nodes} :
                    /\ TabCount(app.tabs, n) = 0
                    /\ app'.tabs = Append(app.tabs, n)
           /\ (/\ KeyStep(Char(" "))
               /\ app.selected = "Sidebar"
               /\ item # NoNode
               /\ Children(item) = << >>) =>
                 /\ TabCount(app'.tabs, name) = 1
                 /\ app'.tabs[app'.tabs_selected + 1] = name
                 /\ i # 0 => (app'.tabs = app.tabs /\ app'.tabs_selected = i - 1)
                 /\ i = 0 => app'.tabs = Append(app.tabs, name)
                 /\ \A b \in AfterKeys(app', <<Char(","), Char(" ")>>) :
                       /\ b.tabs = app'.tabs
                       /\ b.tabs_selected = app'.tabs_selected]_vars

\* The top-level leaf d was opened from the sidebar after leaf c: the tab d
\* that existed from the start is selected, and no tab was added.
C10_Witness ==
    /\ key = Char(" ")
    /\ app.selected = "Tabs"
    /\ sidebar_selected(app) = <<3>>
    /\ app.tabs = <<"a", "b", "d", "c">>
    /\ app.tabs_selected = 2

\* The keys that the Tabs handler answers to.
TabsMoveKeys ==
    {Named("Left"), Named("Right"), Named("Up"), Named("Down"),
     Named("Home"), Named("End")}

\* There is no tab, or the selected tab index is one of a's tabs.
TabIndexInRange(a) ==
    a.tabs # << >> => (0 <= a.tabs_selected /\ a.tabs_selected < Len(a.tabs))

\* C11: whenever there is a tab, the selected tab index is within
\* 0 .. number of tabs - 1, also after a leaf was opened in a tab that
\* existed or in a new one; in the Tabs region Left and Up move it back by
\* one and Right and Down on by one, neither wrapping around, Home sets it
\* to 0 and End to the last index, none of them changes the tabs, and the
\* index is in range after any two of these keys.
C11_TabIndexInRange ==
    /\ TabIndexInRange(app)
    /\ (pc = "loop" /\ app.running /\ app.selected = "Tabs") =>
          /\ \A k \in TabsMoveKeys :
                \A r \in handle_key_events(app, k) :
                   LET i == app.tabs_selected
                       n == Len(app.tabs)
                   IN  /\ ~r.panic
                       /\ r.app.tabs = app.tabs
                       /\ r.app.tabs_selected =
                             CASE k.code \in {"Left", "Up"} ->
                                     IF i > 0 THEN i - 1 ELSE i
                               [] k.code \in {"Right", "Down"} ->
                                     IF i + 1 < n THEN i + 1 ELSE i
                               [] k.code = "Home" -> 0
                               [] k.code = "End"  -> n - 1
          /\ \A k1, k2 \in TabsMoveKeys :
                \A b \in AfterKeys(app, <<k1, k2>>) :
                   b.tabs = app.tabs /\ TabIndexInRange(b)

\* Down was pressed in the Tabs region and the last tab, one appended from
\* the sidebar, is selected.
C11_Witness ==
    /\ key = Named("Down")
    /\ app.selected = "Tabs"
    /\ Len(app.tabs) = Len(Roots) + 1
    /\ app.tabs_selected = Len(app.tabs) - 1
    /\ pc = "loop"

\* The value of the option that is highlighted in a's method menu.
Highlighted(a) == Methods[a.menu_highlight + 1]

\* C12: select() with option k highlighted enqueues exactly one
\* Selected(value of k) event; an Enter key event in the MethodBar region
\* leaves the queue drained, the active method and the menu's label equal to
\* the value of k, and the menu closed; events are applied in the order they
\* were enqueued; and the queue of pending events is empty after every key
\* event.
C12_SelectCommits ==
    [][/\ app.menu_events = << >>
       /\ app'.menu_events = << >>
       /\ menu_select(app).menu_events = <<Highlighted(app)>>
       /\ \A i \in 1..Len(Methods) :
             LET d == drain_events([app EXCEPT !.menu_events =
                                      <<Highlighted(app), Methods[i]>>])
             IN  /\ d.method = Methods[i]
                 /\ d.menu_label = Methods[i]
                 /\ d.menu_events = << >>
       /\ (KeyStep(Named("Enter")) /\ app.selected = "MethodBar") =>
             /\ pc' = "loop"
             /\ app'.method = Highlighted(app)
             /\ app'.menu_label = Highlighted(app)
             /\ ~app'.menu_open
             /\ app' = [app EXCEPT !.method = Highlighted(app),
                                    !.menu_label = Highlighted(app)]]_vars

\* Enter was pressed in the MethodBar region with the third option
\* highlighted, and PUT is the active method.
C12_Witness ==
    /\ key = Named("Enter")
    /\ app.selected = "MethodBar"
    /\ app.menu_highlight = 2
    /\ app.method = "PUT"
    /\ app.menu_label = "PUT"
    /\ app.menu_events = << >>
    /\ pc = "loop"

\* Key event k, handled in state a, is a fire command: once the global
\* handlers have run, the URL field has the focus and is in Normal mode, and
\* the key is 'o'.
Fires(a, k) ==
    /\ global_keys(a, k).selected = "Urlbar"
    /\ a.input_mode = "Normal"
    /\ IsChar(k, "o")

\* The buffer parses neither as it is nor behind "https://".
Unparsable(text) == \A u \in BuiltUrls(text) : u.kind = "err"

\* C13: a fire command on a URL buffer that parses neither as an absolute
\* URL nor behind the prefix "https://" does not abort the process: the
\* running flag stays true and the loop accepts the next key event.
C13_ParseErrorNoAbort ==
    [][\A k \in TextKeys :
          (KeyStep(k) /\ Fires(app, k) /\ Unparsable(app.text)) =>
             (pc' = "loop" /\ app'.running)]_vars

\* C14: when the transport fails during execute, the main loop is still
\* running afterwards and accepts further key events: the resolution of a
\* request in flight never ends the process.
C14_TransportErrorSurfaced ==
    [][pc = "inflight" => (pc' \in {"inflight", "loop"} /\ app'.running)]_vars

\* While a request is in flight no key event is handled and nothing of the
\* application state changes but the response buffer, so no second request
\* starts before the first is resolved.
InFlightExclusive ==
    [][pc = "inflight" =>
          /\ key' = key
          /\ app' = [app EXCEPT !.response_body = app'.response_body]]_vars

\* C15: at most one request is in flight at any time.  The dispatcher goes
\* from Idle through Building to InFlight within the key event that fires,
\* and from InFlight, completed or failed, back to Idle; in between no key
\* event is handled and nothing of the application state changes but the
\* response buffer.
C15_OneInFlight ==
    [][/\ \A k \in RequestKeys :
             (KeyStep(k) /\ Fires(app, k)) => pc' \in {"inflight", "loop"}
       /\ pc = "inflight" =>
             /\ key' = key
             /\ app' = [app EXCEPT !.response_body = app'.response_body]
             /\ pc' \in {"inflight", "loop"}]_vars

\* The buffer builds into an http or https URL, as it is or behind "https://".
BuildsHttp(text) == \A u \in BuiltUrls(text) : u.kind = "http"

\* The call that a fire command in state a hands to the client, for the built
\* URL u: the active method, that URL and the request body.
CallOf(a, u) == [method |-> a.method, url |-> u.url, body |-> a.request_body]

\* C16 as stated: a key event issues exactly one HTTP call if it is a fire
\* command (after the global handlers the focus is Urlbar, the URL field is
\* in Normal mode and the key is 'o') and none otherwise, and the call
\* carries the active method, the URL built from the buffer and the request
\* body.
C16_OneCallPerFire ==
    [][\A k \in RequestKeys :
          KeyStep(k) =>
             \A r \in handle_key_events(app, k) :
                /\ Len(r.sent) = (IF Fires(app, k) THEN 1 ELSE 0)
                /\ r.sent # << >> =>
                      \E u \in BuiltUrls(app.text) : r.sent[1] = CallOf(app, u)]_vars

\* C16 as amended: a key event issues at most one HTTP call, and issues one
\* only if it is a fire command; a fire command issues exactly one when the
\* buffer builds into an http or https URL, and the handler is then
\* suspended on it; the call carries the active method, the built URL and
\* the request body as they are when the key is handled.
C16_CallOnlyOnFire ==
    [][\A k \in RequestKeys :
          KeyStep(k) =>
             /\ \A r \in handle_key_events(app, k) :
                   /\ Len(r.sent) <= 1
                   /\ r.sent # << >> =>
                         /\ Fires(app, k)
                         /\ \E u \in BuiltUrls(app.text) :
                               u.kind = "http" /\ r.sent[1] = CallOf(app, u)
                   /\ (Fires(app, k) /\ BuildsHttp(app.text)) =>
                         (Len(r.sent) = 1 /\ ~r.panic)
             /\ pc' = "inflight" =>
                   /\ Fires(app, k)
                   /\ \E r \in handle_key_events(app, k) :
                         r.app = app' /\ ~r.panic /\ r.sent # << >>
             /\ (Fires(app, k) /\ BuildsHttp(app.text)) => pc' = "inflight"]_vars

\* 'o' was pressed at the URL field in Normal mode after POST was chosen in
\* the menu, and the request is in flight.
C16_Witness ==
    /\ key = Char("o")
    /\ pc = "inflight"
    /\ app.selected = "Urlbar"
    /\ app.input_mode = "Normal"
    /\ app.method = "POST"
    /\ app.text = DefaultUrl

\* The keys of the first arm of the Sidebar handler.
OpenKeys == {Char(" "), Char("o"), Named("Enter")}

\* The expansion state with that of node p flipped.
Flipped(opened, p) == IF p \in opened THEN opened \ {p} ELSE opened \cup {p}

\* C17: only nodes with children are ever expanded.  In the Sidebar region
\* Space, 'o' and Enter on a selected node that has children flip that
\* node's expansion and change nothing else (not the tabs, the selected tab
\* index or the focus); on a selected leaf they change no expansion state;
\* with no node selected they change nothing.
C17_ToggleOnlyParents ==
    [][LET item == sidebar_selected(app)
           none == [app EXCEPT !.tree_cursor = Len(Visible(app))]
       IN  /\ \A p \in app'.tree_opened : Children(p) # << >>
           /\ (key' \in OpenKeys /\ app'.tree_opened # app.tree_opened) =>
                 /\ app.selected = "Sidebar"
                 /\ Children(item) # << >>
                 /\ app'.tree_opened = Flipped(app.tree_opened, item)
           /\ (pc = "loop" /\ app.running /\ app.selected = "Sidebar") =>
                 \A k \in OpenKeys :
                    /\ \A r \in handle_key_events(app, k) :
                          /\ ~r.panic
                          /\ (item # NoNode /\ Children(item) # << >>) =>
                                r.app = [app EXCEPT !.tree_opened =
                                                      Flipped(@, item)]
                          /\ (item # NoNode /\ Children(item) = << >>) =>
                                r.app.tree_opened = app.tree_opened
                    /\ sidebar_selected(none) = NoNode
                    /\ handle_key_events(none, k) = {Ok(none)}]_vars

\* Space was pressed on the nested node d, which has children: it is
\* expanded, the focus is still on the sidebar and the tabs are as they were
\* at the start.
C17_Witness ==
    /\ key = Char(" ")
    /\ app.selected = "Sidebar"
    /\ sidebar_selected(app) = <<2, 2>>
    /\ <<2, 2>> \in app.tree_opened
    /\ app.tabs = DefaultApp.tabs
    /\ app.tabs_selected = DefaultApp.tabs_selected

\* The names of the items of the forest that have no children.
LeafNames == {ItemName(p) : p \in {q \in Nodes : Children(q) = << >>}}

\* C18: in every reachable state, the initial one included, each tab's
\* display name is the name of an item without children that was opened
\* from the sidebar: there is no tab before the first key event, and never
\* a tab whose name is not that of a leaf.
C18_TabsAreOpenedLeaves ==
    /\ key = NoKey => app.tabs = << >>
    /\ \A i \in 1..Len(app.tabs) : app.tabs[i] \in LeafNames

\* C19: the response buffer is written only by the request dispatcher.  No
\* key event changes the response body while it is handled; the body
\* changes only when a request fired by 'o' is resolved, and a request that
\* completes leaves the response buffer equal to the decoded body of the
\* response, or to the empty string when decoding fails, and every other
\* field as it was.
C19_ResponseWrittenByRequest ==
    [][/\ \A k \in RequestKeys :
             KeyStep(k) => app'.response_body = app.response_body
       /\ app'.response_body # app.response_body =>
             (pc = "inflight" /\ IsChar(key, "o"))
       /\ \A t \in TextResults :
             store_response(app, t) =
                [app EXCEPT !.response_body = IF t.ok THEN t.text ELSE ""]
       /\ (pc = "inflight" /\ pc' = "loop") =>
             \E t \in TextResults :
                app' = [app EXCEPT !.response_body = IF t.ok THEN t.text ELSE ""]]_vars

\* A request fired by 'o' has completed and its body is in the response
\* buffer.
C19_Witness ==
    /\ key = Char("o")
    /\ pc = "loop"
    /\ app.selected = "Urlbar"
    /\ app.response_body = "quote"

\* C20: in the Sidebar region Space, 'o' and Enter on a selected node
\* without children leave the focus on Tabs and the selected tab named as
\* that leaf, whether a tab of that name existed or one was appended; no
\* key event removes or renames a tab, and none adds more than one.
C20_OpenLeafFocusesTab ==
    [][LET item == sidebar_selected(app)
       IN  /\ Len(app.tabs) <= Len(app'.tabs)
           /\ Len(app'.tabs) <= Len(app.tabs) + 1
           /\ SubSeq(app'.tabs, 1, Len(app.tabs)) = app.tabs
           /\ (/\ pc = "loop"
               /\ app.running
               /\ app.selected = "Sidebar"
               /\ item # NoNode
               /\ Children(item) = << >>) =>
                 \A k \in OpenKeys :
                    \A r \in handle_key_events(app, k) :
                       /\ ~r.panic
                       /\ r.app.selected = "Tabs"
                       /\ r.app.tabs_selected \in 0..(Len(r.app.tabs) - 1)
                       /\ r.app.tabs[r.app.tabs_selected + 1] = ItemName(item)
                       /\ r.app.tabs \in {app.tabs,
                                          Append(app.tabs, ItemName(item))}]_vars

\* Space was pressed on leaf c, which had no tab: its tab was appended and
\* is selected, and the focus is on Tabs.
C20_Witness ==
    /\ key = Char(" ")
    /\ app.selected = "Tabs"
    /\ sidebar_selected(app) = <<2, 1>>
    /\ app.tabs = <<"a", "b", "d", "c">>
    /\ app.tabs_selected = 3

\* The keys that move the highlight of the method menu, and Esc.
MenuMoveKeys ==
    {Char("h"), Char("j"), Char("k"), Char("l"), Named("Left"),
     Named("Right"), Named("Up"), Named("Down"), Named("Esc")}

\* C21: after every key event the label of the method menu's group names
\* the active method; both start as the default method; an Enter in the
\* MethodBar region sets both to the value of the highlighted option; and
\* Esc and the directional keys in the MethodBar region change neither.
C21_LabelNamesMethod ==
    [][/\ app.menu_label = app.method
       /\ app'.menu_label = app'.method
       /\ key = NoKey =>
             (app.method = Methods[1] /\ app.menu_label = Methods[1])
       /\ (KeyStep(Named("Enter")) /\ app.selected = "MethodBar") =>
             (app'.method = Highlighted(app) /\ app'.menu_label = Highlighted(app))
       /\ (pc = "loop" /\ app.running /\ app.selected = "MethodBar") =>
             \A k \in MenuMoveKeys :
                \A r \in handle_key_events(app, k) :
                   /\ ~r.panic
                   /\ r.app.method = app.method
                   /\ r.app.menu_label = app.menu_label]_vars

\* Esc was pressed in the MethodBar region after PUT was chosen and the
\* highlight moved on: label and method are still PUT.
C21_Witness ==
    /\ key = Named("Esc")
    /\ app.selected = "MethodBar"
    /\ app.method = "PUT"
    /\ app.menu_label = "PUT"
    /\ app.menu_highlight = 4
    /\ pc = "loop"

\* C22: the running flag is true at the start and only ever changes to
\* false; once it is false no key event is handled and nothing of the
\* application state changes; and after the flag has become false the main
\* loop is left.
C22_QuitTerminates ==
    /\ [](key = NoKey => app.running)
    /\ [][/\ app'.running # app.running => (app.running /\ ~app'.running)
          /\ ~app.running => (app' = app /\ key' = key)]_vars
    /\ (~app.running ~> pc \in {"exited", "panicked"})

\* Ctrl+C was pressed while the URL field was focused in Insert mode, and
\* the loop has been left.
C22_Witness ==
    /\ key = QuitKey
    /\ ~app.running
    /\ pc = "exited"
    /\ app.selected = "Urlbar"
    /\ app.input_mode = "Insert"

=============================================================================
